---- MODULE Spec2Model ----
(***************************************************************************)
(* HTLC order canister (rust/basic_bitcoin/src/service/htlc_orders.rs).    *)
(*                                                                         *)
(* The canister keeps one OrderStorage (orders, next_order_no).  Update    *)
(* and query calls run one message at a time; an async update call is      *)
(* suspended at every .await on an external collaborator and other calls   *)
(* run in between.  calls is the bag of the async calls issued so far: of  *)
(* each its arguments, its position (pc), the locals that live across an   *)
(* await and, once it completed, its reply.                                *)
(***************************************************************************)
EXTENDS Integers, Sequences, FiniteSets, Bags, TLC

\* ------------------------------------------------------------------ bounds
\* create_order is enabled while next_order_no <= MaxOrders.
MaxOrders == 2
\* Number of async update calls (get_htlc_address, withdraw_from_order) a
\* behaviour issues.
MaxCalls == 2
\* Width of the account index the order number is cast to ("as u32"); the
\* 32 bits of the source are scaled down to keep 2^w inside TLC's integers.
AccountBits == 3

\* ------------------------------------------------------------ option values
None == <<>>
Some(x) == <<x>>
IsSome(o) == o # <<>>
Unwrap(o) == o[1]

\* --------------------------------------------------------- textual inputs
\* Public keys cross the boundary as hex text.  "02a1" and "02A1" are the
\* same key written in lower and upper case hex, "02b2" is another key,
\* "zz" is not a key.
PubkeyStrings == {"02a1", "02A1", "02b2", "zz"}

\* A hash string is represented by what hex::decode observes of it: whether
\* all characters are hex digits, how many digits there are, and the digits
\* themselves (id).
HashString(allhex, digits, id) == [allhex |-> allhex, digits |-> digits, id |-> id]
Hash32 == HashString(TRUE, 64, "h1")
Hash20 == HashString(TRUE, 40, "h2")
HashOdd == HashString(TRUE, 63, "h3")
HashNotHex == HashString(FALSE, 64, "h4")

\* The arguments create_order is called with.
CreateInputs ==
    { <<"02a1", 144, Hash32>>, <<"02b2", 0, Hash20>>, <<"zz", 144, HashNotHex>> }

\* The order numbers async calls and queries are issued for: MaxOrders + 1
\* is never in the store.
OrderNos == 1..(MaxOrders + 1)
ResponderInputs == {"02b2", "zz"}
AmountInputs == {0, 5}

VARIABLES
    orders,         \* STORAGE.orders: HashMap<u64, HtlcDetail>
    next_order_no,  \* STORAGE.next_order_no
    calls,          \* the async update calls issued so far: a bag of call records
    ecdsa_keys,     \* the key service: account index -> raw public key bytes
    created,        \* history: the create_order calls, in completion order
    derived         \* history: order_no -> address of completed get_htlc_address calls

vars == <<orders, next_order_no, calls, ecdsa_keys, created, derived>>

\* ------------------------------------------------------------ OrderStorage
\* Variant: the time lock is not copied into the record.
HtlcDetail_no_time_lock(initiator_pubkey, time_lock, secret_hash, htlc_address) ==
    [ initiator_pubkey |-> initiator_pubkey,
      time_lock |-> 0,
      secret_hash |-> secret_hash,
      htlc_address |-> htlc_address ]

HtlcDetail(initiator_pubkey, time_lock, secret_hash, htlc_address) ==
    [ initiator_pubkey |-> initiator_pubkey,
      time_lock |-> time_lock,
      secret_hash |-> secret_hash,
      htlc_address |-> htlc_address ]

\* HashMap::insert
MapInsert(m, k, v) == [x \in (DOMAIN m) \cup {k} |-> IF x = k THEN v ELSE m[x]]

\* HashMap::get(..).cloned()
MapGet(m, k) == IF k \in DOMAIN m THEN Some(m[k]) ELSE None

OrderStorage_new == [orders |-> << >>, next_order_no |-> 1]

\* -------------------------------------------------------- key derivation
\* "order_no as u32": the order number truncated to the account width.
as_u32(n) == n % (2 ^ AccountBits)

\* DerivationPath::p2wpkh(account, address_index): purpose 84, coin type 0,
\* the account, change 0, the address index.
DerivationPath_p2wpkh(account, address_index) == <<84, 0, account, 0, address_index>>

\* The derivation path both get_htlc_address and withdraw_from_order use.
order_derivation_path(order_no) == DerivationPath_p2wpkh(as_u32(order_no), 0)

\* The accounts the key service is asked about.
Accounts == 0..(2 ^ AccountBits - 1)

\* The key service is deterministic: the bytes it answers for a path are a
\* fixed function of the path.  ecdsa_keys[a] says whether the bytes of
\* account a are a well-formed SEC1 public key.  The table considered:
\* every key is well-formed but the one of account 2.
KeyTables == { [a \in Accounts |-> a # 2] }

get_ecdsa_public_key(keys, path) ==
    [path |-> path, wellformed |-> keys[path[3]]]

\* CompressedPublicKey::from_slice / PublicKey::from_slice
CompressedPublicKey_from_slice(bytes) ==
    IF bytes.wellformed THEN Some(<<"pubkey", bytes.path>>) ELSE None

Network == "bitcoin_network"

\* Address::p2wpkh(&public_key, network).to_string()
Address_p2wpkh(public_key, network) == <<"p2wpkh", public_key, network>>

\* ------------------------------------------------------------ HTLC script
\* Width of the script integer the time lock is cast to ("as i64"), scaled
\* down from 64 bits.
ScriptIntBits == 9

as_i64(n) ==
    LET m == n % (2 ^ ScriptIntBits)
    IN  IF m < 2 ^ (ScriptIntBits - 1) THEN m ELSE m - 2 ^ ScriptIntBits

\* hex::decode: the bytes, or an error for a non-hex digit or an odd length.
hex_decode(s) ==
    IF s.allhex /\ s.digits % 2 = 0
    THEN Some([len |-> s.digits \div 2, id |-> s.id])
    ELSE None

\* Hex text is read case-insensitively.
LowerHex(s) == IF s = "02A1" THEN "02a1" ELSE s

\* PublicKey::from_str
PublicKey_from_str(s) ==
    IF LowerHex(s) \in {"02a1", "02b2"} THEN Some(LowerHex(s)) ELSE None

Ok(v) == [tag |-> "Ok", val |-> v, msg |-> ""]
Err(m) == [tag |-> "Err", val |-> <<>>, msg |-> m]
\* The message execution panicked: the call is rejected.
Trap(m) == [tag |-> "Trap", val |-> <<>>, msg |-> m]

Op(o) == <<"op", o>>

\* Variant: the two keys are in each other's branch.
generate_p2wsh_htlc_script_keys_swapped(payment_hash, initiator_pubkey, responder_pubkey, timelock) ==
    LET payment_hash_bytes == hex_decode(payment_hash)
        initiator == PublicKey_from_str(initiator_pubkey)
        responder == PublicKey_from_str(responder_pubkey)
    IN  IF ~IsSome(payment_hash_bytes) THEN Err("Failed to decode payment hash")
        ELSE IF ~IsSome(initiator) THEN Err("Failed to parse initiator public key")
        ELSE IF ~IsSome(responder) THEN Err("Failed to parse responder public key")
        ELSE Ok(<< Op("OP_IF"),
                   Op("OP_SHA256"),
                   <<"push_slice", Unwrap(payment_hash_bytes)>>,
                   Op("OP_EQUALVERIFY"),
                   <<"push_key", Unwrap(initiator)>>,
                   Op("OP_CHECKSIG"),
                   Op("OP_ELSE"),
                   <<"push_int", as_i64(timelock)>>,
                   Op("OP_CSV"),
                   Op("OP_DROP"),
                   <<"push_key", Unwrap(responder)>>,
                   Op("OP_CHECKSIG"),
                   Op("OP_ENDIF") >>)

\* Variant: both branches check the initiator's key.
generate_p2wsh_htlc_script_one_key(payment_hash, initiator_pubkey, responder_pubkey, timelock) ==
    LET payment_hash_bytes == hex_decode(payment_hash)
        initiator == PublicKey_from_str(initiator_pubkey)
        responder == PublicKey_from_str(responder_pubkey)
    IN  IF ~IsSome(payment_hash_bytes) THEN Err("Failed to decode payment hash")
        ELSE IF ~IsSome(initiator) THEN Err("Failed to parse initiator public key")
        ELSE IF ~IsSome(responder) THEN Err("Failed to parse responder public key")
        ELSE Ok(<< Op("OP_IF"),
                   Op("OP_SHA256"),
                   <<"push_slice", Unwrap(payment_hash_bytes)>>,
                   Op("OP_EQUALVERIFY"),
                   <<"push_key", Unwrap(initiator)>>,
                   Op("OP_CHECKSIG"),
                   Op("OP_ELSE"),
                   <<"push_int", as_i64(timelock)>>,
                   Op("OP_CSV"),
                   Op("OP_DROP"),
                   <<"push_key", Unwrap(initiator)>>,
                   Op("OP_CHECKSIG"),
                   Op("OP_ENDIF") >>)

generate_p2wsh_htlc_script(payment_hash, initiator_pubkey, responder_pubkey, timelock) ==
    LET payment_hash_bytes == hex_decode(payment_hash)
        initiator == PublicKey_from_str(initiator_pubkey)
        responder == PublicKey_from_str(responder_pubkey)
    IN  IF ~IsSome(payment_hash_bytes) THEN Err("Failed to decode payment hash")
        ELSE IF ~IsSome(initiator) THEN Err("Failed to parse initiator public key")
        ELSE IF ~IsSome(responder) THEN Err("Failed to parse responder public key")
        ELSE Ok(<< Op("OP_IF"),
                   Op("OP_SHA256"),
                   <<"push_slice", Unwrap(payment_hash_bytes)>>,
                   Op("OP_EQUALVERIFY"),
                   <<"push_key", Unwrap(responder)>>,
                   Op("OP_CHECKSIG"),
                   Op("OP_ELSE"),
                   <<"push_int", as_i64(timelock)>>,
                   Op("OP_CSV"),
                   Op("OP_DROP"),
                   <<"push_key", Unwrap(initiator)>>,
                   Op("OP_CHECKSIG"),
                   Op("OP_ENDIF") >>)

\* Address::p2wsh(&script, network)
Address_p2wsh(script, network) == <<"p2wsh", script, network>>

generate_p2wsh_htlc_address(payment_hash, initiator_pubkey, responder_pubkey, timelock, network) ==
    LET script_buf ==
            generate_p2wsh_htlc_script(payment_hash, initiator_pubkey, responder_pubkey, timelock)
    IN  IF script_buf.tag = "Ok" THEN Ok(Address_p2wsh(script_buf.val, network))
        ELSE script_buf

\* ------------------------------------------------------------ async calls
NewCall ==
    [ op |-> "", pc |-> "",
      order_no |-> 0, responder_pubkey |-> "", amount |-> 0,
      order |-> None,            \* withdraw: the order cloned at the start
      htlc_address |-> None,     \* withdraw: the escrow (P2WSH) address
      own_public_key |-> None,   \* withdraw: the funding key
      own_utxos |-> <<>>,        \* withdraw: the values of the UTXOs fetched
      transaction |-> None,      \* withdraw: the transaction built, then signed
      result |-> None,           \* the call's reply, once it completed
      reqs |-> <<>>,             \* history: external requests issued, in order
      queried |-> None,          \* history: the address whose UTXOs were requested
      utxos |-> "none",          \* history: the UTXO provider's answer
      built |-> "none",          \* history: the builder's outcome: "built" or "short"
      broadcast |-> "none",      \* history: the broadcaster's answer
      found |-> FALSE,           \* history: the order was in the store at the start
      cached_at_start |-> None,  \* history: derived[order_no] when the call began
      overlapped |-> FALSE,      \* history: awaited the key while another call did
      wrote |-> "no" ]           \* history: stored htlc_address: "no", "set" (the
                                 \* field was empty) or "over" (it was set)

\* The call completed: its locals are dropped, its reply and history stay.
Done(call, result) ==
    [call EXCEPT !.pc = "done", !.result = Some(result),
                 !.order = None, !.htlc_address = None, !.own_public_key = None,
                 !.own_utxos = <<>>, !.transaction = None]

\* The call issues an external request and is suspended at pc.
Request(call, pc, req) == [call EXCEPT !.pc = pc, !.reqs = Append(call.reqs, req)]

\* A new call is issued.
Begin(call) ==
    /\ BagCardinality(calls) < MaxCalls
    /\ calls' = calls (+) SetToBag({call})

\* The suspended call moves on.
Step(call, next) == calls' = (calls (-) SetToBag({call})) (+) SetToBag({next})

\* Variant: a suspended call is resumed only while no other call is in flight.
Suspended_alone(op, pc) ==
    IF \E r, s \in BagToSet(calls) : r # s /\ r.pc # "done" /\ s.pc # "done"
    THEN {}
    ELSE { r \in BagToSet(calls) : r.op = op /\ r.pc = pc }

\* The calls of op suspended at pc: the answer to the request of any of them
\* can arrive next.
Suspended(op, pc) == { r \in BagToSet(calls) : r.op = op /\ r.pc = pc }

Init ==
    /\ orders = OrderStorage_new.orders
    /\ next_order_no = OrderStorage_new.next_order_no
    /\ calls = EmptyBag
    /\ ecdsa_keys \in KeyTables
    /\ created = <<>>
    /\ derived = << >>

\* ------------------------------------------------------------ Order Store
\* Variant: the counter is not incremented.
create_order_effect_no_increment(storage, initiator_pubkey, time_lock, secret_hash) ==
    LET order_no == storage.next_order_no
        htlc_detail == HtlcDetail(initiator_pubkey, time_lock, secret_hash, None)
    IN  [ orders |-> MapInsert(storage.orders, order_no, htlc_detail),
          next_order_no |-> storage.next_order_no,
          ret |-> order_no ]

\* create_order: the storage after the call and the order number returned.
create_order_effect(storage, initiator_pubkey, time_lock, secret_hash) ==
    LET order_no == storage.next_order_no
        htlc_detail == HtlcDetail(initiator_pubkey, time_lock, secret_hash, None)
    IN  [ orders |-> MapInsert(storage.orders, order_no, htlc_detail),
          next_order_no |-> storage.next_order_no + 1,
          ret |-> order_no ]

create_order(initiator_pubkey, time_lock, secret_hash) ==
    /\ next_order_no <= MaxOrders
    /\ LET r == create_order_effect([orders |-> orders, next_order_no |-> next_order_no],
                                    initiator_pubkey, time_lock, secret_hash)
       IN  /\ orders' = r.orders
           /\ next_order_no' = r.next_order_no
           /\ created' = Append(created,
                  [ ret |-> r.ret, initiator_pubkey |-> initiator_pubkey,
                    time_lock |-> time_lock, secret_hash |-> secret_hash ])
    /\ UNCHANGED <<calls, ecdsa_keys, derived>>

\* A query call replies from the current state and leaves it as it is: the
\* reply of each query is the operator, the call is the action.
get_order_result(order_no) == MapGet(orders, order_no)

get_order(order_no) ==
    /\ order_no \in OrderNos
    /\ UNCHANGED vars

\* get_all_orders: the pairs of the map; their order is unspecified.
get_all_orders_result == { <<k, orders[k]>> : k \in DOMAIN orders }

get_all_orders == UNCHANGED vars

get_next_order_no_result == next_order_no

get_next_order_no == UNCHANGED vars

\* --------------------------------------------------------- Address Deriver
\* Variant: the existence check is skipped.
order_exists_unchecked(m, order_no) == TRUE

\* orders.contains_key(&order_no)
order_exists(m, order_no) == order_no \in DOMAIN m

\* Variant: the cached address is never found.
existing_address_ignored(m, order_no) == None

\* orders.get(&order_no).and_then(|order| order.htlc_address.clone())
existing_address(m, order_no) ==
    IF order_no \in DOMAIN m THEN m[order_no].htlc_address ELSE None

\* Variant: the address is stored in every order.
store_htlc_address_all_orders(m, order_no, address) ==
    [k \in DOMAIN m |-> [m[k] EXCEPT !.htlc_address = Some(address)]]

\* Variant: a write over an address already set clears it.
store_htlc_address_reset(m, order_no, address) ==
    IF order_no \in DOMAIN m
    THEN [m EXCEPT ![order_no].htlc_address = IF IsSome(@) THEN None ELSE Some(address)]
    ELSE m

\* Variant: the address is returned but not stored.
store_htlc_address_lost(m, order_no, address) == m

\* if let Some(order) = orders.get_mut(&order_no) { order.htlc_address = Some(address) }
store_htlc_address(m, order_no, address) ==
    IF order_no \in DOMAIN m
    THEN [m EXCEPT ![order_no].htlc_address = Some(address)]
    ELSE m

\* History: the address the first completed get_htlc_address call returned.
Record(d, order_no, address) ==
    IF order_no \in DOMAIN d THEN d ELSE MapInsert(d, order_no, address)

\* The calls suspended on the key request of get_htlc_address(order_no).
AwaitingKey(order_no) ==
    { r \in Suspended("get_htlc_address", "await_key") : r.order_no = order_no }

RECURSIVE Copies(_, _)
Copies(S, b) ==
    IF S = {} THEN 0
    ELSE LET r == CHOOSE x \in S : TRUE IN CopiesIn(r, b) + Copies(S \ {r}, b)

\* History: the calls suspended on the key request of get_htlc_address(order_no)
\* are marked as overlapped.
Overlap(b, order_no) ==
    LET mark(r) == IF r \in AwaitingKey(order_no)
                   THEN [r EXCEPT !.overlapped = TRUE] ELSE r
        T == { mark(r) : r \in BagToSet(b) }
    IN  [t \in T |-> Copies({ r \in BagToSet(b) : mark(r) = t }, b)]

\* get_htlc_address up to its await: the existence check, the cache check,
\* the key request.
get_htlc_address_begin(order_no) ==
    /\ BagCardinality(calls) < MaxCalls
    /\ LET call == [NewCall EXCEPT !.op = "get_htlc_address",
                                   !.order_no = order_no,
                                   !.found = order_no \in DOMAIN orders,
                                   !.cached_at_start = MapGet(derived, order_no)]
           existing == existing_address(orders, order_no)
       IN  IF ~order_exists(orders, order_no)
           THEN /\ Begin(Done(call, Err("Order does not exist")))
                /\ derived' = derived
           ELSE IF IsSome(existing)
           THEN /\ Begin(Done(call, Ok(Unwrap(existing))))
                /\ derived' = Record(derived, order_no, Unwrap(existing))
           ELSE /\ calls' = Overlap(calls, order_no) (+)
                        SetToBag({[Request(call, "await_key", "ecdsa_public_key")
                                      EXCEPT !.overlapped = AwaitingKey(order_no) # {}]})
                /\ derived' = derived
    /\ UNCHANGED <<orders, next_order_no, ecdsa_keys, created>>

\* get_htlc_address after the key arrived: the address, the write-back, the reply.
get_htlc_address_resume ==
    \E call \in Suspended("get_htlc_address", "await_key") :
        /\ LET order_no == call.order_no
               bytes == get_ecdsa_public_key(ecdsa_keys, order_derivation_path(order_no))
               public_key == CompressedPublicKey_from_slice(bytes)
               address == Address_p2wpkh(Unwrap(public_key), Network)
               wrote == IF order_no \notin DOMAIN orders THEN "no"
                        ELSE IF IsSome(orders[order_no].htlc_address) THEN "over"
                        ELSE "set"
           IN  IF ~IsSome(public_key)
               THEN /\ Step(call, Done(call, Err("Failed to create public key")))
                    /\ UNCHANGED <<orders, derived>>
               ELSE /\ orders' = store_htlc_address(orders, order_no, address)
                    /\ Step(call, Done([call EXCEPT !.wrote = wrote], Ok(address)))
                    /\ derived' = Record(derived, order_no, address)
        /\ UNCHANGED <<next_order_no, ecdsa_keys, created>>

\* The key service fails: the call is rejected, nothing is stored.
get_htlc_address_key_failure ==
    \E call \in Suspended("get_htlc_address", "await_key") :
        /\ Step(call, Done(call, Trap("ExternalServiceFailure")))
        /\ UNCHANGED <<orders, next_order_no, ecdsa_keys, created, derived>>

\* --------------------------------------------------- Withdrawal Orchestrator
\* What the collaborators answer: the values of the UTXOs at the funding
\* address, and the fee rate.
UtxoInputs == { <<>>, <<3>>, <<10>> }
FeeInputs == {1}

RECURSIVE SumSeq(_)
SumSeq(q) == IF q = <<>> THEN 0 ELSE Head(q) + SumSeq(Tail(q))

\* p2wpkh::build_transaction: spends the UTXOs, pays amount to dst_address
\* and the remainder less the fee back to own_address; no transaction when
\* the inputs do not cover amount + fee.
build_transaction(own_address, own_utxos, dst_address, amount, fee_per_byte) ==
    LET total == SumSeq(own_utxos)
        fee == fee_per_byte
    IN  IF total < amount + fee THEN None
        ELSE Some([ inputs |-> <<own_address, own_utxos>>,
                    outputs |-> << <<dst_address, amount>>,
                                   <<own_address, total - amount - fee>> >>,
                    witness |-> None ])

\* p2wpkh::sign_transaction: every input signed under the derivation path.
sign_transaction(transaction, derivation_path) ==
    [transaction EXCEPT !.witness = Some(derivation_path)]

\* Transaction::compute_txid: the hash of the transaction without its witness.
compute_txid(transaction) == <<"txid", transaction.inputs, transaction.outputs>>

\* Variant: the script is built with the two keys in each other's place.
withdraw_from_order_checks_keys_swapped(m, order_no, responder_pubkey, amount_in_satoshi) ==
    LET order == MapGet(m, order_no)
        htlc_address ==
            generate_p2wsh_htlc_address(Unwrap(order).secret_hash,
                                        responder_pubkey,
                                        Unwrap(order).initiator_pubkey,
                                        Unwrap(order).time_lock,
                                        Network)
    IN  IF amount_in_satoshi = 0 THEN Err("Amount must be greater than 0")
        ELSE IF ~IsSome(order) THEN Err("Order does not exist")
        ELSE IF ~IsSome(PublicKey_from_str(responder_pubkey))
        THEN Err("Invalid responder public key")
        ELSE IF htlc_address.tag # "Ok" THEN htlc_address
        ELSE Ok(<<Unwrap(order), htlc_address.val>>)

\* Variant: the order is looked up before the amount is checked.
withdraw_from_order_checks_lookup_first(m, order_no, responder_pubkey, amount_in_satoshi) ==
    LET order == MapGet(m, order_no)
        htlc_address ==
            generate_p2wsh_htlc_address(Unwrap(order).secret_hash,
                                        Unwrap(order).initiator_pubkey,
                                        responder_pubkey,
                                        Unwrap(order).time_lock,
                                        Network)
    IN  IF ~IsSome(order) THEN Err("Order does not exist")
        ELSE IF amount_in_satoshi = 0 THEN Err("Amount must be greater than 0")
        ELSE IF ~IsSome(PublicKey_from_str(responder_pubkey))
        THEN Err("Invalid responder public key")
        ELSE IF htlc_address.tag # "Ok" THEN htlc_address
        ELSE Ok(<<Unwrap(order), htlc_address.val>>)

\* Variant: the responder key is parsed before the order is looked up.
withdraw_from_order_checks_key_first(m, order_no, responder_pubkey, amount_in_satoshi) ==
    LET order == MapGet(m, order_no)
        htlc_address ==
            generate_p2wsh_htlc_address(Unwrap(order).secret_hash,
                                        Unwrap(order).initiator_pubkey,
                                        responder_pubkey,
                                        Unwrap(order).time_lock,
                                        Network)
    IN  IF amount_in_satoshi = 0 THEN Err("Amount must be greater than 0")
        ELSE IF ~IsSome(PublicKey_from_str(responder_pubkey))
        THEN Err("Invalid responder public key")
        ELSE IF ~IsSome(order) THEN Err("Order does not exist")
        ELSE IF htlc_address.tag # "Ok" THEN htlc_address
        ELSE Ok(<<Unwrap(order), htlc_address.val>>)

\* withdraw_from_order before its first await: the amount check, the order
\* lookup, the responder key check and the escrow address, in this order.
\* Err(..) of the first check that fails, else Ok of the order and the address.
withdraw_from_order_checks(m, order_no, responder_pubkey, amount_in_satoshi) ==
    LET order == MapGet(m, order_no)
        htlc_address ==
            generate_p2wsh_htlc_address(Unwrap(order).secret_hash,
                                        Unwrap(order).initiator_pubkey,
                                        responder_pubkey,
                                        Unwrap(order).time_lock,
                                        Network)
    IN  IF amount_in_satoshi = 0 THEN Err("Amount must be greater than 0")
        ELSE IF ~IsSome(order) THEN Err("Order does not exist")
        ELSE IF ~IsSome(PublicKey_from_str(responder_pubkey))
        THEN Err("Invalid responder public key")
        ELSE IF htlc_address.tag # "Ok" THEN htlc_address
        ELSE Ok(<<Unwrap(order), htlc_address.val>>)

\* withdraw_from_order up to its first await: the checks, then the key request.
withdraw_from_order_begin(order_no, responder_pubkey, amount_in_satoshi) ==
    /\ LET call == [NewCall EXCEPT !.op = "withdraw_from_order",
                                   !.order_no = order_no,
                                   !.responder_pubkey = responder_pubkey,
                                   !.amount = amount_in_satoshi,
                                   !.found = order_no \in DOMAIN orders]
           checked == withdraw_from_order_checks(orders, order_no, responder_pubkey,
                                                 amount_in_satoshi)
       IN  Begin(IF checked.tag # "Ok"
                 THEN Done(call, checked)
                 ELSE Request([call EXCEPT !.order = Some(checked.val[1]),
                                           !.htlc_address = Some(checked.val[2])],
                              "await_key", "ecdsa_public_key"))
    /\ UNCHANGED <<orders, next_order_no, ecdsa_keys, created, derived>>

\* Variant: the funding address is also cached in the order.
withdraw_from_order_key_caching ==
    \E call \in Suspended("withdraw_from_order", "await_key") :
        /\ LET bytes == get_ecdsa_public_key(ecdsa_keys, order_derivation_path(call.order_no))
               own_public_key == CompressedPublicKey_from_slice(bytes)
               own_address == Address_p2wpkh(Unwrap(own_public_key), Network)
           IN  /\ Step(call, IF ~IsSome(own_public_key)
                             THEN Done(call, Err("Failed to create public key"))
                             ELSE Request([call EXCEPT !.own_public_key = own_public_key,
                                                       !.queried = Some(own_address)],
                                          "await_utxos", "bitcoin_get_utxos"))
               /\ orders' = IF ~IsSome(own_public_key) THEN orders
                            ELSE store_htlc_address(orders, call.order_no,
                                     Address_p2wpkh(Unwrap(own_public_key), Network))
        /\ UNCHANGED <<next_order_no, ecdsa_keys, created, derived>>

\* Variant: the funding key is asked for at address index 1.
withdraw_from_order_key_other_index ==
    \E call \in Suspended("withdraw_from_order", "await_key") :
        /\ LET bytes == get_ecdsa_public_key(ecdsa_keys,
                            DerivationPath_p2wpkh(as_u32(call.order_no), 1))
               own_public_key == CompressedPublicKey_from_slice(bytes)
               own_address == Address_p2wpkh(Unwrap(own_public_key), Network)
           IN  Step(call, IF ~IsSome(own_public_key)
                          THEN Done(call, Err("Failed to create public key"))
                          ELSE Request([call EXCEPT !.own_public_key = own_public_key,
                                                    !.queried = Some(own_address)],
                                       "await_utxos", "bitcoin_get_utxos"))
        /\ UNCHANGED <<orders, next_order_no, ecdsa_keys, created, derived>>

\* The funding key arrived: the funding address, the UTXO request.
withdraw_from_order_key ==
    \E call \in Suspended("withdraw_from_order", "await_key") :
        /\ LET bytes == get_ecdsa_public_key(ecdsa_keys, order_derivation_path(call.order_no))
               own_public_key == CompressedPublicKey_from_slice(bytes)
               own_address == Address_p2wpkh(Unwrap(own_public_key), Network)
           IN  Step(call, IF ~IsSome(own_public_key)
                          THEN Done(call, Err("Failed to create public key"))
                          ELSE Request([call EXCEPT !.own_public_key = own_public_key,
                                                    !.queried = Some(own_address)],
                                       "await_utxos", "bitcoin_get_utxos"))
        /\ UNCHANGED <<orders, next_order_no, ecdsa_keys, created, derived>>

\* Variant: an empty UTXO set is not checked for.
withdraw_from_order_utxos_unchecked(utxos) ==
    \E call \in Suspended("withdraw_from_order", "await_utxos") :
        /\ Step(call, Request([call EXCEPT !.own_utxos = utxos,
                                           !.utxos = IF utxos = <<>> THEN "empty" ELSE "some"],
                              "await_fee", "get_fee_per_byte"))
        /\ UNCHANGED <<orders, next_order_no, ecdsa_keys, created, derived>>

\* The UTXOs arrived: none is an error, otherwise the fee request.
withdraw_from_order_utxos(utxos) ==
    \E call \in Suspended("withdraw_from_order", "await_utxos") :
        /\ Step(call, IF utxos = <<>>
                      THEN Done([call EXCEPT !.utxos = "empty"],
                                Err("No UTXOs available for this order"))
                      ELSE Request([call EXCEPT !.own_utxos = utxos, !.utxos = "some"],
                                   "await_fee", "get_fee_per_byte"))
        /\ UNCHANGED <<orders, next_order_no, ecdsa_keys, created, derived>>

\* The UTXO provider fails.
withdraw_from_order_utxos_failure ==
    \E call \in Suspended("withdraw_from_order", "await_utxos") :
        /\ Step(call, Done([call EXCEPT !.utxos = "failed"], Err("Failed to get UTXOs")))
        /\ UNCHANGED <<orders, next_order_no, ecdsa_keys, created, derived>>

\* Variant: the transaction built is sent without being signed.
withdraw_from_order_fee_unsigned(fee_per_byte) ==
    \E call \in Suspended("withdraw_from_order", "await_fee") :
        /\ LET own_address == Address_p2wpkh(Unwrap(call.own_public_key), Network)
               transaction == build_transaction(own_address, call.own_utxos,
                                                Unwrap(call.htlc_address),
                                                call.amount, fee_per_byte)
           IN  Step(call, IF ~IsSome(transaction)
                          THEN Done([call EXCEPT !.built = "short"], Trap("InsufficientFunds"))
                          ELSE Request([call EXCEPT !.transaction = transaction,
                                                    !.built = "built"],
                                       "await_send", "bitcoin_send_transaction"))
        /\ UNCHANGED <<orders, next_order_no, ecdsa_keys, created, derived>>

\* The fee rate arrived: the transaction is built and the signing request
\* issued; a build that cannot cover amount + fee ends the call.
withdraw_from_order_fee(fee_per_byte) ==
    \E call \in Suspended("withdraw_from_order", "await_fee") :
        /\ LET own_address == Address_p2wpkh(Unwrap(call.own_public_key), Network)
               transaction == build_transaction(own_address, call.own_utxos,
                                                Unwrap(call.htlc_address),
                                                call.amount, fee_per_byte)
           IN  Step(call, IF ~IsSome(transaction)
                          THEN Done([call EXCEPT !.built = "short"], Trap("InsufficientFunds"))
                          ELSE Request([call EXCEPT !.transaction = transaction,
                                                    !.built = "built"],
                                       "await_sign", "sign_with_ecdsa"))
        /\ UNCHANGED <<orders, next_order_no, ecdsa_keys, created, derived>>

\* The signatures arrived: the signed transaction is sent to the network.
withdraw_from_order_signed ==
    \E call \in Suspended("withdraw_from_order", "await_sign") :
        /\ Step(call, Request([call EXCEPT !.transaction =
                                  Some(sign_transaction(Unwrap(call.transaction),
                                                        order_derivation_path(call.order_no)))],
                              "await_send", "bitcoin_send_transaction"))
        /\ UNCHANGED <<orders, next_order_no, ecdsa_keys, created, derived>>

\* The network accepted the transaction: the call returns its id.
withdraw_from_order_sent ==
    \E call \in Suspended("withdraw_from_order", "await_send") :
        /\ Step(call, Done([call EXCEPT !.broadcast = "accepted"],
                           Ok(compute_txid(Unwrap(call.transaction)))))
        /\ UNCHANGED <<orders, next_order_no, ecdsa_keys, created, derived>>

\* The network rejected the transaction.
withdraw_from_order_send_failure ==
    \E call \in Suspended("withdraw_from_order", "await_send") :
        /\ Step(call, Done([call EXCEPT !.broadcast = "rejected"],
                           Err("Failed to send transaction")))
        /\ UNCHANGED <<orders, next_order_no, ecdsa_keys, created, derived>>

\* The key service, the fee oracle or the signer fails: the call is rejected.
withdraw_from_order_service_failure ==
    \E call \in BagToSet(calls) :
        /\ call.op = "withdraw_from_order"
        /\ call.pc \in {"await_key", "await_fee", "await_sign"}
        /\ Step(call, Done(call, Trap("ExternalServiceFailure")))
        /\ UNCHANGED <<orders, next_order_no, ecdsa_keys, created, derived>>

\* ------------------------------------------------------------ specification
Next ==
    \/ \E in \in CreateInputs : create_order(in[1], in[2], in[3])
    \/ \E n \in {1, next_order_no} : get_order(n)
    \/ get_all_orders
    \/ get_next_order_no
    \/ \E n \in OrderNos : get_htlc_address_begin(n)
    \/ get_htlc_address_resume
    \/ get_htlc_address_key_failure
    \/ \E n \in OrderNos, p \in ResponderInputs, a \in AmountInputs :
           withdraw_from_order_begin(n, p, a)
    \/ withdraw_from_order_key
    \/ \E u \in UtxoInputs : withdraw_from_order_utxos(u)
    \/ withdraw_from_order_utxos_failure
    \/ \E f \in FeeInputs : withdraw_from_order_fee(f)
    \/ withdraw_from_order_signed
    \/ withdraw_from_order_sent
    \/ withdraw_from_order_send_failure
    \/ withdraw_from_order_service_failure

Spec == Init /\ [][Next]_vars

\* Every external collaborator answers the requests made of it, with a
\* result or with a failure: while a call is suspended, one of the answers
\* below eventually arrives.
Response ==
    \/ get_htlc_address_resume
    \/ get_htlc_address_key_failure
    \/ withdraw_from_order_key
    \/ \E u \in UtxoInputs : withdraw_from_order_utxos(u)
    \/ withdraw_from_order_utxos_failure
    \/ \E f \in FeeInputs : withdraw_from_order_fee(f)
    \/ withdraw_from_order_signed
    \/ withdraw_from_order_sent
    \/ withdraw_from_order_send_failure
    \/ withdraw_from_order_service_failure

\* The calls that suspend, on a store that MaxOrders create_order calls have
\* filled with any of the inputs: the store changes under these calls only
\* by store_htlc_address.
RECURSIVE FilledStorage(_)
FilledStorage(ins) ==
    IF ins = << >>
    THEN [ orders |-> OrderStorage_new.orders,
           next_order_no |-> OrderStorage_new.next_order_no ]
    ELSE LET in == ins[Len(ins)]
             r == create_order_effect(FilledStorage(SubSeq(ins, 1, Len(ins) - 1)),
                                      in[1], in[2], in[3])
         IN  [orders |-> r.orders, next_order_no |-> r.next_order_no]

InitFair ==
    \E ins \in [1..MaxOrders -> CreateInputs] :
        /\ orders = FilledStorage(ins).orders
        /\ next_order_no = FilledStorage(ins).next_order_no
        /\ created = [ k \in 1..MaxOrders |->
                         [ ret |-> k, initiator_pubkey |-> ins[k][1],
                           time_lock |-> ins[k][2], secret_hash |-> ins[k][3] ] ]
        /\ calls = EmptyBag
        /\ ecdsa_keys \in KeyTables
        /\ derived = << >>

NextFair ==
    \/ \E n \in OrderNos : get_htlc_address_begin(n)
    \/ \E n \in OrderNos, p \in ResponderInputs, a \in AmountInputs :
           withdraw_from_order_begin(n, p, a)
    \/ Response

SpecFair == InitFair /\ [][NextFair]_vars /\ WF_vars(Response)

\* ----------------------------------------------- the script builder alone
\* The script builder is reached through withdraw_from_order only.  Under
\* SpecScript the store holds one order, created with any of the keys, time
\* locks and hashes below, and withdrawals are begun on it with any responder
\* key: every withdrawal past the checks holds the escrow address built.
\* The time locks: 0, 144, and around the largest script integer (i64::MAX,
\* i64::MAX + 1, u64::MAX at the scaled width).
TimeLocks ==
    {0, 144, 2 ^ (ScriptIntBits - 1) - 1, 2 ^ (ScriptIntBits - 1), 2 ^ ScriptIntBits - 1}
SecretHashes == {Hash32, Hash20, HashOdd, HashNotHex}

InitScript ==
    /\ \E p \in PubkeyStrings, t \in TimeLocks, h \in SecretHashes :
          LET r == create_order_effect(OrderStorage_new, p, t, h)
          IN  /\ orders = r.orders
              /\ next_order_no = r.next_order_no
              /\ created = << [ ret |-> r.ret, initiator_pubkey |-> p,
                                time_lock |-> t, secret_hash |-> h ] >>
    /\ calls = EmptyBag
    /\ ecdsa_keys \in KeyTables
    /\ derived = << >>

NextScript ==
    \E p \in PubkeyStrings, a \in AmountInputs \ {0} : withdraw_from_order_begin(1, p, a)

SpecScript == InitScript /\ [][NextScript]_vars

\* ------------------------------------------- a store past the account width
\* Under SpecWrap the store holds the orders of 2^AccountBits + 1 calls of
\* create_order (2^32 + 1 in the source): order numbers no longer fit the
\* account index.  get_htlc_address is called on the first order, on the
\* order whose key is malformed, on the last two orders, and on a number
\* that is not in the store.
WrapOrders == 2 ^ AccountBits + 1
WrapNos == {1, 2, WrapOrders - 1, WrapOrders, WrapOrders + 1}

RECURSIVE CreatedStorage(_)
CreatedStorage(k) ==
    IF k = 0 THEN [ orders |-> OrderStorage_new.orders,
                    next_order_no |-> OrderStorage_new.next_order_no ]
    ELSE LET r == create_order_effect(CreatedStorage(k - 1), "02a1", 144, Hash32)
         IN  [orders |-> r.orders, next_order_no |-> r.next_order_no]

InitWrap ==
    /\ orders = CreatedStorage(WrapOrders).orders
    /\ next_order_no = CreatedStorage(WrapOrders).next_order_no
    /\ created = [ k \in 1..WrapOrders |->
                     [ ret |-> k, initiator_pubkey |-> "02a1",
                       time_lock |-> 144, secret_hash |-> Hash32 ] ]
    /\ calls = EmptyBag
    /\ ecdsa_keys \in KeyTables
    /\ derived = << >>

NextWrap ==
    \/ \E n \in WrapNos : get_htlc_address_begin(n)
    \/ get_htlc_address_resume
    \/ get_htlc_address_key_failure

SpecWrap == InitWrap /\ [][NextWrap]_vars

\* =================================================================== claims
Issued == BagToSet(calls)
InFlight(r) == r.pc # "done"
IsDone(r) == r.pc = "done"
Result(r) == Unwrap(r.result)
Derivations == { r \in Issued : r.op = "get_htlc_address" }
Withdrawals == { r \in Issued : r.op = "withdraw_from_order" }

\* C1: the k-th completed create_order returns exactly k (order numbers
\* start at 1 and increase by one, without gaps or repeats), also while
\* get_htlc_address and withdraw_from_order calls are suspended.
C1_OrderNumbersSequential ==
    \A k \in 1..Len(created) : created[k].ret = k

\* C1 witness: MaxOrders orders were created and one of them after a call
\* was suspended on an external request (the call began when the order it
\* asks for did not exist yet, or is still in flight).
C1_Witness ==
    /\ Len(created) = MaxOrders
    /\ \E r \in Issued : InFlight(r)
    /\ \E r \in Issued : ~r.found /\ r.order_no \in DOMAIN orders

\* C2: after create_order(p, t, h) returned n, get_order(n) returns a record
\* with initiator_pubkey = p, time_lock = t, secret_hash = h, and with no
\* address as long as no get_htlc_address call for n completed; get_order of
\* an id create_order never returned finds nothing.
C2_GetOrderAfterCreate ==
    /\ \A k \in 1..Len(created) :
          LET e == created[k]
              r == get_order_result(e.ret)
          IN  /\ IsSome(r)
              /\ Unwrap(r).initiator_pubkey = e.initiator_pubkey
              /\ Unwrap(r).time_lock = e.time_lock
              /\ Unwrap(r).secret_hash = e.secret_hash
              /\ (e.ret \notin DOMAIN derived => Unwrap(r).htlc_address = None)
    /\ \A n \in OrderNos \cup {0} :
          (\A k \in 1..Len(created) : created[k].ret # n) => get_order_result(n) = None

\* C2 witness: two orders with different arguments exist, one of them with
\* no completed get_htlc_address call, and an id that was never returned.
C2_Witness ==
    /\ Len(created) >= 2
    /\ created[1].time_lock # created[2].time_lock
    /\ \E k \in 1..Len(created) : created[k].ret \notin DOMAIN derived
    /\ \E k \in 1..Len(created) : created[k].ret \in DOMAIN derived
    /\ \E n \in OrderNos : get_order_result(n) = None

\* C3: once a get_htlc_address call on an order completed successfully, a
\* later call on that order returns the same address and issues no request
\* to the key service.
C3_DeriveIdempotent ==
    \A r \in Derivations :
        IsSome(r.cached_at_start)
        => /\ IsDone(r)
           /\ Result(r).tag = "Ok"
           /\ Result(r).val = Unwrap(r.cached_at_start)
           /\ r.reqs = <<>>

\* C3 witness: a call began after another call on the same order completed
\* with an address obtained from the key service.
C3_Witness ==
    \E r, s \in Derivations :
        /\ IsDone(r) /\ IsDone(s)
        /\ r.order_no = s.order_no
        /\ s.wrote # "no"
        /\ IsSome(r.cached_at_start)

\* C4: once an order's htlc_address is set, no step changes it or resets it:
\* every later write, the write-back of a call suspended before the field
\* was set included, stores the same value.
C4_FundingAddressImmutable ==
    [][\A n \in DOMAIN orders :
          IsSome(orders[n].htlc_address)
          => /\ n \in DOMAIN orders'
             /\ orders'[n].htlc_address = orders[n].htlc_address]_vars

\* C4 witness: two calls on the same order were suspended together and both
\* wrote the field, the second over the value of the first, while another
\* order exists.
C4_Witness ==
    \E r, s \in Derivations :
        /\ r.order_no = s.order_no
        /\ r.overlapped /\ IsDone(r) /\ r.wrote = "set"
        /\ s.overlapped /\ IsDone(s) /\ s.wrote = "over"
        /\ Len(created) >= 2

KeyWellFormed(order_no) == ecdsa_keys[as_u32(order_no)]

\* C5: two get_htlc_address calls on the same uncached order that both
\* passed the cache check before either wrote (and whose key request was
\* answered with a usable key) both issued the key request, both wrote
\* back, both returned the same address, and the order stores that address;
\* a call that overlapped another fails only for the reasons a lone call
\* fails (the key service fails, or its key is malformed).
C5_OverlapSafe ==
    /\ \A r, s \in Derivations :
          (/\ r.order_no = s.order_no
           /\ r.overlapped /\ IsDone(r) /\ Result(r).tag # "Trap"
           /\ s.overlapped /\ IsDone(s) /\ Result(s).tag # "Trap"
           /\ KeyWellFormed(r.order_no))
          => /\ r.reqs = <<"ecdsa_public_key">>
             /\ s.reqs = <<"ecdsa_public_key">>
             /\ r.wrote # "no" /\ s.wrote # "no"
             /\ Result(r).tag = "Ok" /\ Result(s).tag = "Ok"
             /\ Result(r).val = Result(s).val
             /\ orders[r.order_no].htlc_address = Some(Result(r).val)
    /\ \A r \in Derivations :
          (r.overlapped /\ IsDone(r) /\ Result(r).tag # "Ok")
          => \/ Result(r) = Trap("ExternalServiceFailure")
             \/ /\ Result(r) = Err("Failed to create public key")
                /\ ~KeyWellFormed(r.order_no)

\* C5 witness: two overlapping calls completed with an address, one after
\* the other.
C5_Witness ==
    \E r, s \in Derivations :
        /\ r.order_no = s.order_no
        /\ r.overlapped /\ IsDone(r) /\ Result(r).tag = "Ok" /\ r.wrote = "set"
        /\ s.overlapped /\ IsDone(s) /\ Result(s).tag = "Ok" /\ s.wrote = "over"
        /\ Result(r).val = Result(s).val

\* C6: withdraw_from_order with amount 0 fails with "Amount must be greater
\* than 0" and issues no external request, whatever the order number
\* (existing or not) and the responder key (valid or not).
C6_ZeroAmountRejected ==
    \A r \in Withdrawals :
        r.amount = 0
        => /\ IsDone(r)
           /\ Result(r) = Err("Amount must be greater than 0")
           /\ r.reqs = <<>>

\* C6 witness: a call with amount 0 on an order of the store with a valid
\* responder key, and one on an unknown order with an invalid key.
C6_Witness ==
    \E r, s \in Withdrawals :
        /\ r.amount = 0 /\ r.found /\ r.responder_pubkey = "02b2"
        /\ s.amount = 0 /\ ~s.found /\ s.responder_pubkey = "zz"

\* C7: with amount > 0, withdraw_from_order on an order that is not in the
\* store fails with "Order does not exist" whether or not the responder key
\* parses; on an order of the store it fails with "Invalid responder public
\* key" when the key does not parse; neither issues an external request.
C7_CheckOrder ==
    \A r \in Withdrawals :
        r.amount > 0
        => /\ ~r.found
              => /\ IsDone(r)
                 /\ Result(r) = Err("Order does not exist")
                 /\ r.reqs = <<>>
           /\ (r.found /\ ~IsSome(PublicKey_from_str(r.responder_pubkey)))
              => /\ IsDone(r)
                 /\ Result(r) = Err("Invalid responder public key")
                 /\ r.reqs = <<>>

\* C7 witness: a call on an unknown order with an invalid key, and a call on
\* an order of the store with an invalid key.
C7_Witness ==
    \E r, s \in Withdrawals :
        /\ r.amount > 0 /\ ~r.found /\ r.responder_pubkey = "zz"
        /\ s.amount > 0 /\ s.found /\ s.responder_pubkey = "zz"

\* The call records a step adds to calls: the call it began or moved on.
Stepped == { r \in BagToSet(calls') : CopiesIn(r, calls') > CopiesIn(r, calls) }

\* C8: get_htlc_address on an order number that is not in the store fails
\* with "Order does not exist", issues no key request, and leaves orders and
\* next_order_no as they were.
C8_DeriveUnknownOrder ==
    [][\A r \in Stepped :
          (r.op = "get_htlc_address" /\ r.order_no \notin DOMAIN orders)
          => /\ r.pc = "done"
             /\ r.result = Some(Err("Order does not exist"))
             /\ r.reqs = <<>>
             /\ orders' = orders
             /\ next_order_no' = next_order_no]_vars

\* C8 witness: a call on an unknown order number completed while the store
\* holds an order.
C8_Witness ==
    \E r \in Derivations :
        /\ IsDone(r)
        /\ ~r.found
        /\ r.order_no \notin DOMAIN orders
        /\ orders # << >>

\* C9: no step of a withdraw_from_order call, whatever its outcome, changes
\* orders or next_order_no; it neither sets the order's htlc_address nor
\* marks the order.
C9_WithdrawLeavesStore ==
    [][\A r \in Stepped :
          r.op = "withdraw_from_order"
          => /\ orders' = orders
             /\ next_order_no' = next_order_no]_vars

\* C9 witness: a withdrawal succeeded and one failed at the broadcast, and
\* the order still has no htlc_address.
C9_Witness ==
    \E r, s \in Withdrawals :
        /\ IsDone(r) /\ Result(r).tag = "Ok"
        /\ IsDone(s) /\ s.broadcast = "rejected"
        /\ orders[r.order_no].htlc_address = None

Positions(q, x) == { i \in DOMAIN q : q[i] = x }

\* C10: a withdraw_from_order call sends the transaction at most once, only
\* after the signing request and with the signed transaction, and as its
\* last request, so a call that ends before or during signing sends nothing;
\* a transaction id is returned only when the network accepted the
\* transaction, and a rejection yields "Failed to send transaction".
C10_BroadcastAfterSigning ==
    \A r \in Withdrawals :
        LET sends == Positions(r.reqs, "bitcoin_send_transaction")
            signs == Positions(r.reqs, "sign_with_ecdsa")
        IN  /\ Cardinality(sends) <= 1
            /\ \A i \in sends : i = Len(r.reqs) /\ \E j \in signs : j < i
            /\ r.pc = "await_send"
               => /\ IsSome(r.transaction)
                  /\ IsSome(Unwrap(r.transaction).witness)
            /\ r.pc = "await_sign" => sends = {}
            /\ (IsDone(r) /\ Result(r).tag = "Ok")
               => sends # {} /\ r.broadcast = "accepted"
            /\ r.broadcast = "rejected"
               => IsDone(r) /\ Result(r) = Err("Failed to send transaction")
            /\ r.broadcast # "none" => sends # {}

\* C10 witness: one withdrawal returned a transaction id, one was rejected
\* by the network, or one ended during signing.
C10_Witness ==
    \E r, s \in Withdrawals :
        /\ IsDone(r) /\ Result(r).tag = "Ok"
        /\ IsDone(s)
        /\ \/ s.broadcast = "rejected"
           \/ /\ Result(s).tag = "Trap"
              /\ s.reqs[Len(s.reqs)] = "sign_with_ecdsa"

\* C11: when the UTXO provider answers with no UTXO, withdraw_from_order
\* fails with "No UTXOs available for this order", and the UTXO request is
\* the last request it issued: no fee query, no signing request, no send.
C11_NoFunds ==
    \A r \in Withdrawals :
        /\ r.utxos = "empty"
           => /\ IsDone(r)
              /\ Result(r) = Err("No UTXOs available for this order")
              /\ r.reqs = <<"ecdsa_public_key", "bitcoin_get_utxos">>
        /\ (IsDone(r) /\ Result(r) = Err("No UTXOs available for this order"))
           => r.utxos = "empty"

\* C11 witness: one withdrawal ended on an empty UTXO set and another, given
\* UTXOs, went on to the fee query.
C11_Witness ==
    \E r, s \in Withdrawals :
        /\ r.utxos = "empty" /\ IsDone(r)
        /\ s.utxos = "some" /\ Positions(s.reqs, "get_fee_per_byte") # {}

\* The hash string decodes to exactly 32 bytes (a SHA-256 digest).
Decodes32(secret_hash) ==
    /\ IsSome(hex_decode(secret_hash))
    /\ Unwrap(hex_decode(secret_hash)).len = 32

\* The withdrawals that passed the amount check, the order lookup and the
\* responder key check.
PastChecks ==
    { r \in Withdrawals : /\ r.amount > 0
                          /\ r.found
                          /\ IsSome(PublicKey_from_str(r.responder_pubkey)) }

\* C12: the script builder fails on a secret_hash that is not valid hex or
\* does not decode to exactly 32 bytes, so a withdraw_from_order on an order
\* with such a hash fails and requests neither the UTXOs nor the send.
C12_InvalidHash ==
    \A r \in PastChecks :
        LET order == orders[r.order_no] IN
        ~Decodes32(order.secret_hash)
        => /\ generate_p2wsh_htlc_script(order.secret_hash, order.initiator_pubkey,
                                         r.responder_pubkey, order.time_lock).tag = "Err"
           /\ Positions(r.reqs, "bitcoin_get_utxos") = {}
           /\ Positions(r.reqs, "bitcoin_send_transaction") = {}
           /\ IsDone(r) => Result(r).tag # "Ok"

\* C13: when the UTXOs fetched do not cover amount + fee, withdraw_from_order
\* returns an error value to its caller, and issues neither a signing
\* request nor the send.
C13_InsufficientFunds ==
    \A r \in Withdrawals :
        r.built = "short"
        => /\ IsDone(r)
           /\ Result(r).tag = "Err"
           /\ Positions(r.reqs, "sign_with_ecdsa") = {}
           /\ Positions(r.reqs, "bitcoin_send_transaction") = {}

\* The withdrawals suspended with an escrow address built.
Escrowed == { r \in Withdrawals : IsSome(r.htlc_address) }

\* C14 as stated: two accepted responder_pubkey inputs that differ, all
\* other inputs equal, give different escrow addresses.
C14_ResponderTextsDiffer ==
    \A r, s \in Escrowed :
        (r.order_no = s.order_no /\ r.responder_pubkey # s.responder_pubkey)
        => r.htlc_address # s.htlc_address

\* C14 amended: for one order, two accepted responder_pubkey inputs give the
\* same escrow address exactly when they parse to the same key (two texts
\* of one key, such as lower and upper case hex, give the same address).
C14_ResponderKeysDiffer ==
    \A r, s \in Escrowed :
        r.order_no = s.order_no
        => ((r.htlc_address = s.htlc_address)
            <=> (PublicKey_from_str(r.responder_pubkey)
                 = PublicKey_from_str(s.responder_pubkey)))

\* C14 witness: escrow addresses were built for one order with two different
\* responder keys, one of them written in upper case hex.
C14_Witness ==
    \E r, s \in Escrowed :
        /\ r.order_no = s.order_no
        /\ r.responder_pubkey = "02A1"
        /\ s.responder_pubkey = "02b2"
        /\ r.htlc_address # s.htlc_address

\* The derivation path of the key an address pays to.
KeyPath(address) == address[2][2]

\* C15: a withdraw_from_order call asks for the UTXOs of the address of the
\* key at path (account = order number, index 0), spends from and returns
\* the change to that address, and signs under that path; the address is
\* the one get_htlc_address returns for the order, whether the order had it
\* cached before the withdrawal or not.
C15_SameDerivationPath ==
    \A r \in Withdrawals :
        IsSome(r.queried)
        => LET own_address == Unwrap(r.queried)
               path == KeyPath(own_address)
           IN  /\ path[3] = as_u32(r.order_no) /\ path[5] = 0
               /\ IsSome(r.own_public_key)
                  => Address_p2wpkh(Unwrap(r.own_public_key), Network) = own_address
               /\ IsSome(r.transaction)
                  => LET transaction == Unwrap(r.transaction)
                     IN  /\ transaction.inputs[1] = own_address
                         /\ transaction.outputs[2][1] = own_address
                         /\ IsSome(transaction.witness)
                            => Unwrap(transaction.witness) = path
               /\ r.order_no \in DOMAIN derived
                  => derived[r.order_no] = own_address
               /\ IsSome(orders[r.order_no].htlc_address)
                  => orders[r.order_no].htlc_address = r.queried

\* C15 witness: a withdrawal holds its signed transaction on an order whose
\* address a get_htlc_address call obtained from the key service and stored.
C15_Witness ==
    \E r \in Withdrawals, s \in Derivations :
        /\ IsSome(r.transaction)
        /\ IsSome(Unwrap(r.transaction).witness)
        /\ s.order_no = r.order_no
        /\ IsDone(s) /\ s.wrote = "set"

\* C16: in a withdraw_from_order call that reaches the transaction builder,
\* the destination is the escrow address of the order's secret_hash,
\* initiator_pubkey and time_lock as given to create_order (and as read at
\* the start of the call) with the responder_pubkey of the call, and the
\* destination value is the amount of the call.
C16_Destination ==
    \A r \in Withdrawals :
        IsSome(r.htlc_address)
        => LET e == created[r.order_no]
               escrow == generate_p2wsh_htlc_address(e.secret_hash, e.initiator_pubkey,
                                                     r.responder_pubkey, e.time_lock,
                                                     Network)
           IN  /\ Unwrap(r.order).secret_hash = e.secret_hash
               /\ Unwrap(r.order).initiator_pubkey = e.initiator_pubkey
               /\ Unwrap(r.order).time_lock = e.time_lock
               /\ escrow.tag = "Ok"
               /\ r.htlc_address = Some(escrow.val)
               /\ IsSome(r.transaction)
                  => Unwrap(r.transaction).outputs[1] = <<escrow.val, r.amount>>

\* C16 witness: a withdrawal holds the transaction built, on an order whose
\* initiator is not the responder, while another order exists and a
\* get_htlc_address call wrote to the store after the withdrawal began.
C16_Witness ==
    \E r \in Withdrawals :
        /\ IsSome(r.transaction)
        /\ Unwrap(r.order).initiator_pubkey # r.responder_pubkey
        /\ Unwrap(r.order).htlc_address = None
        /\ IsSome(orders[r.order_no].htlc_address)
        /\ Len(created) >= 2

\* The redeem script an escrow address commits to.
ScriptOf(address) == address[2]

\* The script is OP_IF claim OP_ELSE refund OP_ENDIF, with no other
\* conditional: the claim branch compares SHA-256 of the preimage with the
\* hash and checks a signature of the responder's key, the refund branch
\* checks the relative lock time against lock and then a signature of the
\* initiator's key.
TwoBranches(script, hash, initiator, responder, lock) ==
    /\ Len(script) = 13
    /\ script[1] = Op("OP_IF") /\ script[7] = Op("OP_ELSE") /\ script[13] = Op("OP_ENDIF")
    /\ \A i \in 1..13 :
          script[i] \in {Op("OP_IF"), Op("OP_ELSE"), Op("OP_ENDIF")} => i \in {1, 7, 13}
    /\ SubSeq(script, 2, 6) = << Op("OP_SHA256"), <<"push_slice", hash>>,
                                 Op("OP_EQUALVERIFY"),
                                 <<"push_key", responder>>, Op("OP_CHECKSIG") >>
    /\ SubSeq(script, 8, 12) = << <<"push_int", lock>>, Op("OP_CSV"), Op("OP_DROP"),
                                  <<"push_key", initiator>>, Op("OP_CHECKSIG") >>

\* C17 as stated: the script has the two branches, the claim branch with the
\* responder's key and the refund branch with the initiator's key, and the
\* refund branch checks the lock time with the value time_lock, for every
\* time_lock.
C17_LockIsTimeLock ==
    \A r \in Escrowed :
        LET order == orders[r.order_no] IN
        TwoBranches(ScriptOf(Unwrap(r.htlc_address)),
                    Unwrap(hex_decode(order.secret_hash)),
                    Unwrap(PublicKey_from_str(order.initiator_pubkey)),
                    Unwrap(PublicKey_from_str(r.responder_pubkey)),
                    order.time_lock)

\* C17 amended: the same, with the lock time checked against time_lock read
\* as a signed script integer: time_lock itself while it is below half the
\* unsigned range (2^63 in the source), and time_lock less the whole range
\* (a negative number) from there on.  The check is there for every
\* time_lock, 0 included.
C17_LockIsSignedTimeLock ==
    \A r \in Escrowed :
        LET order == orders[r.order_no] IN
        TwoBranches(ScriptOf(Unwrap(r.htlc_address)),
                    Unwrap(hex_decode(order.secret_hash)),
                    Unwrap(PublicKey_from_str(order.initiator_pubkey)),
                    Unwrap(PublicKey_from_str(r.responder_pubkey)),
                    IF order.time_lock < 2 ^ (ScriptIntBits - 1)
                    THEN order.time_lock
                    ELSE order.time_lock - 2 ^ ScriptIntBits)

\* C17 witness: scripts were built for an order with time_lock 0 whose
\* initiator key is not the responder key of the call.
C17_Witness ==
    \E r \in Escrowed :
        /\ orders[r.order_no].time_lock = 0
        /\ PublicKey_from_str(orders[r.order_no].initiator_pubkey)
           # PublicKey_from_str(r.responder_pubkey)

\* C18: two distinct order numbers of the store have distinct derivation
\* paths, so each order has its own funding key and funding address: the
\* addresses get_htlc_address returns for two orders differ.
C18_DistinctPaths ==
    \A r, s \in Derivations :
        (/\ r.order_no # s.order_no
         /\ IsDone(r) /\ Result(r).tag = "Ok"
         /\ IsDone(s) /\ Result(s).tag = "Ok")
        => /\ order_derivation_path(r.order_no) # order_derivation_path(s.order_no)
           /\ Result(r).val # Result(s).val

\* C19: the keys of orders are exactly 1..next_order_no - 1 in every state;
\* no step removes an order or changes the initiator_pubkey, time_lock or
\* secret_hash of an order; get_next_order_no replies with the number the
\* next create_order returns; a step of a get_htlc_address call on order n
\* leaves every other order as it was.
C19_StoreShape ==
    /\ [](DOMAIN orders = 1..(next_order_no - 1))
    /\ [][/\ \A n \in DOMAIN orders :
                /\ n \in DOMAIN orders'
                /\ orders'[n].initiator_pubkey = orders[n].initiator_pubkey
                /\ orders'[n].time_lock = orders[n].time_lock
                /\ orders'[n].secret_hash = orders[n].secret_hash
          /\ Len(created') > Len(created)
             => created'[Len(created')].ret = get_next_order_no_result
          /\ \A r \in Stepped :
                r.op = "get_htlc_address"
                => \A n \in DOMAIN orders : n # r.order_no => orders'[n] = orders[n]
          /\ orders' # orders
             => \/ Len(created') > Len(created)
                \/ \E r \in Stepped : r.op = "get_htlc_address" /\ r.wrote # "no"]_vars

\* C19 witness: the store holds MaxOrders orders, one with its address
\* stored by a get_htlc_address call and one without an address.
C19_Witness ==
    /\ next_order_no = MaxOrders + 1
    /\ \E r \in Derivations : IsDone(r) /\ r.wrote = "set"
    /\ \E n \in DOMAIN orders : orders[n].htlc_address = None

\* C20: every get_htlc_address and withdraw_from_order call completes, with
\* a result or a failure, provided the collaborators answer: whenever calls
\* are in flight, whatever other calls run in between, a state follows in
\* which every call issued has completed.
C20_Termination ==
    (\E r \in Issued : InFlight(r)) ~> (\A r \in Issued : IsDone(r))

\* C20 witness: MaxCalls calls have completed, among them get_htlc_address
\* calls that were suspended together and a withdrawal that had been
\* suspended.
C20_Witness ==
    /\ BagCardinality(calls) = MaxCalls
    /\ \A r \in Issued : IsDone(r)
    /\ \/ \E r \in Derivations : r.overlapped
       \/ /\ \E r \in Derivations : r.reqs # <<>>
          /\ \E r \in Withdrawals : r.reqs # <<>>

====
